---- MODULE Spec2Model ----
(***************************************************************************)
(* Model of the air quality canister (src/src/backend/src/lib.rs): the id  *)
(* counter cell, the stable B-tree map of records, and the canister's      *)
(* update and query entry points.  Every entry point runs to completion    *)
(* as one atomic step (one canister message).                              *)
(***************************************************************************)
EXTENDS Integers, Sequences, FiniteSets, TLC

\* ---------------------------------------------------------------- bounds
\* Number of successful creates explored from the initial state.
MaxCreates == 2
\* Largest value of the host clock explored.
MaxTime == 1

\* ------------------------------------------------------- input domains
\* Strings are sequences of characters.
Locations == { << >>, <<"a">>, <<"a", "b">> }
Recommendations == { << >>, <<"h">> }
Needles == { << >>, <<"b">>, <<"a", "b">> }
Pollutants == { "PM2.5", "O3" }
\* Inclusive [min, max] ranges offered to the weather query: the metrics the
\* payloads carry (0, 5, 18, 60) lie inside them or on their ends.
Ranges == { <<0, 18>>, <<35, 60>> }
\* Inclusive [min, max] ranges offered to the pollutant query: the level the
\* payloads carry (35) is the upper end of one and the lower end of the other.
LevelRanges == { <<0, 35>>, <<35, 60>> }

\* Option<T>: None is the empty sequence, Some(x) the one-element sequence.
None == << >>
Some(x) == << x >>

\* HashMap<String, f64>::default(): the map with no key.
EmptyMap == [n \in {} |-> 0]
\* WeatherData::default(): every metric 0.0.
DefaultWeather == [temperature |-> 0, humidity |-> 0, wind_speed |-> 0]

\* The index and the two optional fields of a payload: all given, or the
\* optional ones omitted.
Details ==
    { [ air_quality_index |-> 42,
        pollutant_levels |->
            Some([n \in {"PM2.5", "O3"} |-> IF n = "PM2.5" THEN 35 ELSE 50]),
        weather_conditions |->
            Some([temperature |-> 18, humidity |-> 60, wind_speed |-> 5]) ],
      [ air_quality_index |-> 0,
        pollutant_levels |-> None,
        weather_conditions |-> None ] }

\* AirQualityUpdatePayload
Payloads ==
    { [ location |-> l,
        air_quality_index |-> d.air_quality_index,
        health_recommendations |-> h,
        pollutant_levels |-> d.pollutant_levels,
        weather_conditions |-> d.weather_conditions ] :
      l \in Locations, h \in Recommendations, d \in Details }

\* A u64 is written by its two's-complement representative: 0, 1, 2, ... are
\* themselves and -1 is 2^64 - 1, the largest u64.
U64_MAX == 0 - 1

\* a < b on u64
ULess(a, b) == IF (a >= 0) = (b >= 0) THEN a < b ELSE a >= 0

\* Identifiers a caller may pass: the first ones a fresh store assigns, and
\* the largest u64.
Ids == (0 .. (MaxCreates - 1)) \cup {U64_MAX}

VARIABLES
    counter,    \* AIR_QUALITY_ID_COUNTER: the value held by the cell
    storage,    \* AIR_QUALITY_STORAGE: function from live id to record
    now,        \* last value returned by the host clock, time()
    call,       \* the entry point invoked by the last step, with its arguments
    ret,        \* the Result returned by the last step
    created,    \* ids returned by the successful creates, in call order
    deleted     \* ids removed by a successful delete

vars == << counter, storage, now, call, ret, created, deleted >>

\* ------------------------------------------------------------- helpers
\* Option::unwrap_or_default
unwrap_or_default(opt, default) == IF opt = None THEN default ELSE opt[1]

\* String::is_empty
is_empty(s) == Len(s) = 0

\* str::contains(&needle): substring containment
contains(hay, needle) ==
    \E i \in 0 .. (Len(hay) - Len(needle)) :
        SubSeq(hay, i + 1, i + Len(needle)) = needle

\* Result values
Ok(v) == [tag |-> "Ok", val |-> v]
Err(kind) == [tag |-> kind]

\* AirQualityData::MAX_SIZE: the largest encoding the map accepts
MAX_SIZE == 1024

\* Encode!: a text is its length followed by its characters
EncodeText(text) == << Len(text) >> \o text

\* Encode!: a HashMap is its number of entries followed by each key and value,
\* in the order the map's iterator yields them (some order of the keys)
RECURSIVE EncodeEntries(_, _)
EncodeEntries(map, keys) ==
    IF keys = {} THEN << >>
    ELSE LET k == CHOOSE x \in keys : TRUE
         IN  << k, map[k] >> \o EncodeEntries(map, keys \ {k})

\* Storable::to_bytes: the fields of the record one after the other.  Each
\* element of the sequence stands for one or more bytes of the encoding.
to_bytes_SwapsWeather(data) ==
    << data.id >> \o EncodeText(data.location)
        \o << data.timestamp, data.air_quality_index >>
        \o EncodeText(data.health_recommendations)
        \o << Cardinality(DOMAIN data.pollutant_levels) >>
        \o EncodeEntries(data.pollutant_levels, DOMAIN data.pollutant_levels)
        \o << data.weather_conditions.humidity,
              data.weather_conditions.temperature,
              data.weather_conditions.wind_speed >>
to_bytes(data) ==
    << data.id >> \o EncodeText(data.location)
        \o << data.timestamp, data.air_quality_index >>
        \o EncodeText(data.health_recommendations)
        \o << Cardinality(DOMAIN data.pollutant_levels) >>
        \o EncodeEntries(data.pollutant_levels, DOMAIN data.pollutant_levels)
        \o << data.weather_conditions.temperature,
              data.weather_conditions.humidity,
              data.weather_conditions.wind_speed >>

\* Storable::from_bytes: reads the fields back in the order to_bytes wrote
\* them; the map is rebuilt by inserting the entries one by one
from_bytes(bytes) ==
    LET location_len == bytes[2]
        p == 3 + location_len
        recommendations_len == bytes[p + 2]
        q == p + 3 + recommendations_len
        entries == bytes[q]
        w == q + 1 + 2 * entries
        key(i) == bytes[q + 2 * i - 1]
        value(i) == bytes[q + 2 * i]
    IN  [ id |-> bytes[1],
          location |-> SubSeq(bytes, 3, 2 + location_len),
          timestamp |-> bytes[p],
          air_quality_index |-> bytes[p + 1],
          health_recommendations |-> SubSeq(bytes, p + 3, p + 2 + recommendations_len),
          pollutant_levels |->
              [ k \in { key(i) : i \in 1 .. entries } |->
                  value(CHOOSE i \in 1 .. entries :
                          /\ key(i) = k
                          /\ \A j \in 1 .. entries : key(j) = k => j <= i) ],
          weather_conditions |->
              [ temperature |-> bytes[w],
                humidity |-> bytes[w + 1],
                wind_speed |-> bytes[w + 2] ] ]

\* StableBTreeMap::insert asserts that the encoded value is within MAX_SIZE
Fits(data) == Len(to_bytes(data)) <= MAX_SIZE

\* StableBTreeMap::get
_get_air_quality_data_OrDefault(s, id) ==
    IF id \in DOMAIN s
    THEN Some(s[id])
    ELSE Some([ id |-> id, location |-> << >>, timestamp |-> 0,
                air_quality_index |-> 0, health_recommendations |-> << >>,
                pollutant_levels |-> EmptyMap,
                weather_conditions |-> DefaultWeather ])
_get_air_quality_data(s, id) == IF id \in DOMAIN s THEN Some(s[id]) ELSE None

do_insert_air_quality_WrongKey(s, data) ==
    [k \in DOMAIN s \cup {data.id + 1} |->
        IF k = data.id + 1 THEN from_bytes(to_bytes(data)) ELSE s[k]]
\* StableBTreeMap::insert(data.id, data.clone()): insert or overwrite.  The
\* map keeps the encoding of the value; what a later get or iter yields is
\* the decoding of it.
do_insert_air_quality(s, data) ==
    [k \in DOMAIN s \cup {data.id} |->
        IF k = data.id THEN from_bytes(to_bytes(data)) ELSE s[k]]

\* StableBTreeMap::remove
remove_Keeps(s, id) == s
remove_All(s, id) == [k \in {} |-> 0]
remove(s, id) == [k \in DOMAIN s \ {id} |-> s[k]]

\* Cell::set(value): stores value, returns the value the cell held before
CellSet_NoStore(cell, value) == [cell |-> cell, previous |-> cell]
CellSet(cell, value) == [cell |-> value, previous |-> cell]

\* The keys of a B-tree in the order a traversal visits them: ascending
RECURSIVE KeysAscending(_)
KeysAscending(K) ==
    IF K = {} THEN << >>
    ELSE LET k == CHOOSE x \in K : \A y \in K : ~ULess(y, x)
         IN  << k >> \o KeysAscending(K \ {k})

RECURSIVE KeysDescending(_)
KeysDescending(K) ==
    IF K = {} THEN << >>
    ELSE LET k == CHOOSE x \in K : \A y \in K : ~ULess(x, y)
         IN  << k >> \o KeysDescending(K \ {k})

\* StableBTreeMap::iter(): the values in ascending key order
iter_Descending(s) ==
    LET keys == KeysDescending(DOMAIN s)
    IN  [i \in 1 .. Len(keys) |-> s[keys[i]]]
iter(s) ==
    LET keys == KeysAscending(DOMAIN s)
    IN  [i \in 1 .. Len(keys) |-> s[keys[i]]]

\* ---------------------------------------------------------------- Init
Init ==
    /\ counter = 0
    /\ storage = [k \in {} |-> 0]
    /\ now = 0
    /\ call = [op |-> "init"]
    /\ ret = [tag |-> "none"]
    /\ created = << >>
    /\ deleted = {}

\* ------------------------------------------------------ update methods
\* The record built by add_air_quality_data
NewRecord(id, data, t) ==
    [ id |-> id,
      location |-> data.location,
      timestamp |-> t,
      air_quality_index |-> data.air_quality_index,
      health_recommendations |-> data.health_recommendations,
      pollutant_levels |-> unwrap_or_default(data.pollutant_levels, EmptyMap),
      weather_conditions |-> unwrap_or_default(data.weather_conditions, DefaultWeather) ]

\* The validation of add_air_quality_data: true when the payload is rejected
add_invalid_And(data) ==
    is_empty(data.location) /\ is_empty(data.health_recommendations)
add_invalid(data) ==
    is_empty(data.location) \/ is_empty(data.health_recommendations)

\* The validation of update_air_quality_data
update_invalid_LocationOnly(payload) == is_empty(payload.location)
update_invalid_And(payload) ==
    is_empty(payload.location) /\ is_empty(payload.health_recommendations)
update_invalid(payload) ==
    is_empty(payload.location) \/ is_empty(payload.health_recommendations)

\* current_value + 1 on u64: the outcomes the build can produce.  On the
\* largest u64 the addition overflows: it panics when the build checks
\* overflow (a debug profile) and wraps to 0 when it does not (the release
\* profile).
Increment_ByTwo(current_value) == { [panic |-> FALSE, value |-> current_value + 2] }
Increment(current_value) ==
    IF current_value = U64_MAX
    THEN { [panic |-> TRUE, value |-> current_value], [panic |-> FALSE, value |-> 0] }
    ELSE { [panic |-> FALSE, value |-> current_value + 1] }

\* A panic traps the message: the caller gets no Result and every change the
\* call made to the canister's state is discarded
Trap == [tag |-> "Trap"]

\* time(): the host clock never goes back; t is the value it returns
time(t) == t \in now .. MaxTime /\ now' = t

add_air_quality_data(data) ==
    /\ call' = [op |-> "add", payload |-> data]
    /\ IF add_invalid(data)
       THEN /\ ret' = Err("InvalidInput")
            /\ UNCHANGED << counter, storage, now, created, deleted >>
       ELSE /\ Len(created) < MaxCreates
            /\ \E sum \in Increment(counter) :
                  IF sum.panic
                  THEN /\ ret' = Trap
                       /\ UNCHANGED << counter, storage, now, created >>
                  ELSE \E t \in 0 .. MaxTime :
                         /\ time(t)
                         /\ LET set == CellSet(counter, sum.value)
                                id == set.previous
                                air_quality_data == NewRecord(id, data, t)
                            IN  IF Fits(air_quality_data)
                                THEN /\ counter' = set.cell
                                     /\ storage' =
                                            do_insert_air_quality(storage, air_quality_data)
                                     /\ ret' = Ok(air_quality_data)
                                     /\ created' = Append(created, id)
                                ELSE /\ ret' = Trap
                                     /\ UNCHANGED << counter, storage, created >>
            /\ UNCHANGED deleted

\* The record written by update_air_quality_data over the stored record data
UpdatedRecord_KeepsIndex(data, payload, t) ==
    [ data EXCEPT
        !.location = payload.location,
        !.health_recommendations = payload.health_recommendations,
        !.pollutant_levels = unwrap_or_default(payload.pollutant_levels, EmptyMap),
        !.weather_conditions = unwrap_or_default(payload.weather_conditions, DefaultWeather),
        !.timestamp = t ]
UpdatedRecord_RetainsOptional(data, payload, t) ==
    [ data EXCEPT
        !.location = payload.location,
        !.air_quality_index = payload.air_quality_index,
        !.health_recommendations = payload.health_recommendations,
        !.pollutant_levels = unwrap_or_default(payload.pollutant_levels, @),
        !.weather_conditions = unwrap_or_default(payload.weather_conditions, @),
        !.timestamp = t ]
UpdatedRecord(data, payload, t) ==
    [ data EXCEPT
        !.location = payload.location,
        !.air_quality_index = payload.air_quality_index,
        !.health_recommendations = payload.health_recommendations,
        !.pollutant_levels = unwrap_or_default(payload.pollutant_levels, EmptyMap),
        !.weather_conditions = unwrap_or_default(payload.weather_conditions, DefaultWeather),
        !.timestamp = t ]

update_air_quality_data(id, payload) ==
    /\ call' = [op |-> "update", id |-> id, payload |-> payload]
    /\ UNCHANGED << counter, created, deleted >>
    /\ IF update_invalid(payload)
       THEN /\ ret' = Err("InvalidInput")
            /\ UNCHANGED << storage, now >>
       ELSE LET found == _get_air_quality_data(storage, id)
            IN  IF found # None
                THEN \E t \in 0 .. MaxTime :
                       /\ time(t)
                       /\ LET data == UpdatedRecord(found[1], payload, t)
                          IN  IF Fits(data)
                              THEN /\ storage' = do_insert_air_quality(storage, data)
                                   /\ ret' = Ok(data)
                              ELSE /\ ret' = Trap
                                   /\ UNCHANGED storage
                ELSE /\ ret' = Err("NotFound")
                     /\ UNCHANGED << storage, now >>

delete_air_quality_data(id) ==
    /\ call' = [op |-> "delete", id |-> id]
    /\ UNCHANGED << counter, now, created >>
    /\ IF id \in DOMAIN storage
       THEN /\ storage' = remove(storage, id)
            /\ ret' = Ok(storage[id])
            /\ deleted' = deleted \cup {id}
       ELSE /\ ret' = Err("NotFound")
            /\ UNCHANGED << storage, deleted >>

\* ------------------------------------------------------- query methods
\* The Result each query method returns on the store s.  A filter_map(..)
\* closure that yields Some(clone) or None, followed by collect(), keeps the
\* items the closure accepts, in the order the iterator visits them.
get_air_quality_data_result(s, id) ==
    LET found == _get_air_quality_data(s, id)
    IN  IF found # None THEN Ok(found[1]) ELSE Err("NotFound")

get_all_air_quality_data_result(s) == Ok(iter(s))

search_air_quality_data_by_location_result(s, location) ==
    LET keep(space) == contains(space.location, location)
    IN  Ok(SelectSeq(iter(s), keep))

get_air_quality_data_by_weather_conditions_result_AnyMetric(s, temp, hum, wind) ==
    LET keep(data) ==
            LET weather == data.weather_conditions
            IN  \/ weather.temperature >= temp[1] /\ weather.temperature <= temp[2]
                \/ weather.humidity >= hum[1] /\ weather.humidity <= hum[2]
                \/ weather.wind_speed >= wind[1] /\ weather.wind_speed <= wind[2]
    IN  Ok(SelectSeq(iter(s), keep))
get_air_quality_data_by_weather_conditions_result(s, temp, hum, wind) ==
    LET keep(data) ==
            LET weather == data.weather_conditions
            IN  /\ weather.temperature >= temp[1]
                /\ weather.temperature <= temp[2]
                /\ weather.humidity >= hum[1]
                /\ weather.humidity <= hum[2]
                /\ weather.wind_speed >= wind[1]
                /\ weather.wind_speed <= wind[2]
    IN  Ok(SelectSeq(iter(s), keep))

get_air_quality_data_by_pollutant_level_result_MissingAsZero(s, pollutant, level) ==
    LET value(data) ==
            IF pollutant \in DOMAIN data.pollutant_levels
            THEN data.pollutant_levels[pollutant] ELSE 0
        keep(data) == value(data) >= level[1] /\ value(data) <= level[2]
    IN  Ok(SelectSeq(iter(s), keep))
get_air_quality_data_by_pollutant_level_result(s, pollutant, level) ==
    LET keep(data) ==
            /\ pollutant \in DOMAIN data.pollutant_levels
            /\ data.pollutant_levels[pollutant] >= level[1]
            /\ data.pollutant_levels[pollutant] <= level[2]
    IN  Ok(SelectSeq(iter(s), keep))

get_air_quality_data_by_timestamp_range_result_Exclusive(s, start_timestamp, end_timestamp) ==
    LET keep(data) ==
            data.timestamp >= start_timestamp /\ data.timestamp < end_timestamp
    IN  Ok(SelectSeq(iter(s), keep))
get_air_quality_data_by_timestamp_range_result(s, start_timestamp, end_timestamp) ==
    LET keep(data) ==
            data.timestamp >= start_timestamp /\ data.timestamp <= end_timestamp
    IN  Ok(SelectSeq(iter(s), keep))

\* A query step: records the call and its Result, touches nothing else
Query_Draining(c, r) ==
    /\ call' = c
    /\ ret' = r
    /\ storage' = [k \in {} |-> 0]
    /\ UNCHANGED << counter, now, created, deleted >>
Query(c, r) ==
    /\ call' = c
    /\ ret' = r
    /\ UNCHANGED << counter, storage, now, created, deleted >>

get_air_quality_data(id) ==
    Query([op |-> "get", id |-> id], get_air_quality_data_result(storage, id))

get_all_air_quality_data ==
    Query([op |-> "get_all"], get_all_air_quality_data_result(storage))

search_air_quality_data_by_location(location) ==
    Query([op |-> "by_location", location |-> location],
          search_air_quality_data_by_location_result(storage, location))

get_air_quality_data_by_weather_conditions(temp, hum, wind) ==
    Query([op |-> "by_weather", temperature |-> temp, humidity |-> hum,
           wind_speed |-> wind],
          get_air_quality_data_by_weather_conditions_result(storage, temp, hum, wind))

get_air_quality_data_by_pollutant_level(pollutant, level) ==
    Query([op |-> "by_pollutant", pollutant |-> pollutant, level |-> level],
          get_air_quality_data_by_pollutant_level_result(storage, pollutant, level))

get_air_quality_data_by_timestamp_range(start_timestamp, end_timestamp) ==
    Query([op |-> "by_timestamp", start |-> start_timestamp, end |-> end_timestamp],
          get_air_quality_data_by_timestamp_range_result(
              storage, start_timestamp, end_timestamp))

\* ---------------------------------------------------------------- Next
Next ==
    \/ \E data \in Payloads : add_air_quality_data(data)
    \/ \E id \in Ids, payload \in Payloads : update_air_quality_data(id, payload)
    \/ \E id \in Ids : delete_air_quality_data(id)
    \/ \E id \in Ids : get_air_quality_data(id)
    \/ get_all_air_quality_data
    \/ \E location \in Needles : search_air_quality_data_by_location(location)
    \/ \E temp \in Ranges, hum \in Ranges, wind \in Ranges :
           get_air_quality_data_by_weather_conditions(temp, hum, wind)
    \/ \E pollutant \in Pollutants, level \in LevelRanges :
           get_air_quality_data_by_pollutant_level(pollutant, level)
    \/ \E start_timestamp \in 0 .. MaxTime, end_timestamp \in 0 .. MaxTime :
           get_air_quality_data_by_timestamp_range(start_timestamp, end_timestamp)

Spec == Init /\ [][Next]_vars

\* A store that has handed out every identifier below the largest u64 and
\* still holds the first record it created.  created and deleted record the
\* calls made from this state on.
InitWrap ==
    /\ counter = U64_MAX
    /\ storage =
          [k \in {0} |->
              NewRecord(0, [ location |-> <<"a">>, air_quality_index |-> 0,
                             health_recommendations |-> <<"h">>,
                             pollutant_levels |-> None,
                             weather_conditions |-> None ], 0)]
    /\ now = 0
    /\ call = [op |-> "init"]
    /\ ret = [tag |-> "none"]
    /\ created = << >>
    /\ deleted = {}

SpecWrap == InitWrap /\ [][Next]_vars

\* ------------------------------------------------------------- claims
\* Text fields a record or payload must have
NonEmptyText(p) == Len(p.location) > 0 /\ Len(p.health_recommendations) > 0

\* The last step was a successful call of op
Succeeded(op) == call.op = op /\ ret.tag = "Ok"

\* C1: the identifiers returned by the successful creates are strictly
\* increasing in call order, so none is returned twice, also with deletes
\* between the creates.
C1_IdsStrictlyIncreasing ==
    /\ \A i, j \in 1 .. Len(created) : i < j => ULess(created[i], created[j])
    /\ Succeeded("add") => ret.val.id = created[Len(created)]

C1_Witness ==
    /\ Succeeded("add")
    /\ Len(created) >= 2
    /\ created[1] \in deleted

\* C2: a successful create returns the post-increment counter value as the
\* record's identifier: the id equals the persisted counter right after the
\* call, and the first create on a fresh store returns id 1.
C2_IdIsPostIncrement ==
    Succeeded("add") =>
        /\ ret.val.id = counter
        /\ (Len(created) = 1 => ret.val.id = 1)

\* C3: add_air_quality_data with an empty location or an empty
\* health_recommendations returns InvalidInput and leaves the counter and the
\* record map as they were.
C3_AddInvalidInput ==
    [][ (call'.op = "add" /\ ~NonEmptyText(call'.payload)) =>
            /\ ret'.tag = "InvalidInput"
            /\ counter' = counter
            /\ storage' = storage ]_vars

C3_Witness ==
    /\ call.op = "add"
    /\ ~NonEmptyText(call.payload)
    /\ ret.tag = "InvalidInput"
    /\ counter > 0
    /\ DOMAIN storage # {}

\* C4 as stated: update, delete and get on an identifier with no live record
\* return NotFound for any payload and change nothing.
C4_NotFoundAnyPayload ==
    [][ (call'.op \in {"update", "delete", "get"} /\ call'.id \notin DOMAIN storage) =>
            /\ ret'.tag = "NotFound"
            /\ counter' = counter
            /\ storage' = storage ]_vars

\* C4 as amended: delete and get on an identifier with no live record, and
\* update on one with a payload whose location and health_recommendations
\* are both non-empty, return NotFound; update with an empty text field
\* returns InvalidInput instead; none of them changes the counter or the map.
C4_NotFound ==
    [][ (call'.op \in {"update", "delete", "get"} /\ call'.id \notin DOMAIN storage) =>
            /\ IF call'.op = "update" /\ ~NonEmptyText(call'.payload)
               THEN ret'.tag = "InvalidInput"
               ELSE ret'.tag = "NotFound"
            /\ counter' = counter
            /\ storage' = storage ]_vars

C4_Witness ==
    /\ call.op = "update"
    /\ NonEmptyText(call.payload)
    /\ call.id \notin DOMAIN storage
    /\ call.id \in deleted
    /\ ret.tag = "NotFound"
    /\ DOMAIN storage # {}

\* C5: after a successful update(id, payload), get(id) returns a record with
\* the payload's location, index and recommendations, the payload's pollutant
\* mapping and weather metrics (an omitted one reading as its default), the
\* same id, and a timestamp not below the record's timestamp before the update.
C5_UpdateThenGet ==
    [][ (call'.op = "update" /\ ret'.tag = "Ok") =>
            LET got == get_air_quality_data_result(storage', call'.id)
                payload == call'.payload
            IN  /\ got.tag = "Ok"
                /\ got.val.id = call'.id
                /\ got.val.location = payload.location
                /\ got.val.air_quality_index = payload.air_quality_index
                /\ got.val.health_recommendations = payload.health_recommendations
                /\ got.val.pollutant_levels =
                       (IF payload.pollutant_levels = None
                        THEN EmptyMap ELSE payload.pollutant_levels[1])
                /\ got.val.weather_conditions =
                       (IF payload.weather_conditions = None
                        THEN DefaultWeather ELSE payload.weather_conditions[1])
                /\ got.val.timestamp >= storage[call'.id].timestamp
                /\ got.val = ret'.val ]_vars

C5_Witness ==
    /\ Succeeded("update")
    /\ call.id \in DOMAIN storage
    /\ storage[call.id].timestamp > 0
    /\ storage[call.id].air_quality_index = 42

\* C6: once delete_air_quality_data(id) has succeeded, get_air_quality_data(id)
\* returns NotFound in every later state: no later create returns that id and
\* the id never becomes live again.
C6_DeletedStaysNotFound ==
    /\ \A id \in deleted : get_air_quality_data_result(storage, id).tag = "NotFound"
    /\ Succeeded("add") => ret.val.id \notin deleted

C6_Witness ==
    /\ Succeeded("add")
    /\ deleted # {}
    /\ DOMAIN storage # {}

\* C7: the counter starts at 0, grows by exactly 1 on every successful
\* add_air_quality_data and is left unchanged by every other call, so it
\* never decreases.
C7_CounterSteps ==
    /\ counter = 0
    /\ [][ /\ IF call'.op = "add" /\ ret'.tag = "Ok"
              THEN counter' = counter + 1
              ELSE counter' = counter
           /\ counter' >= counter ]_vars

C7_Witness ==
    /\ Succeeded("delete")
    /\ counter = 2
    /\ Len(created) = 2

\* C8: every record in the store has a non-empty location and a non-empty
\* health_recommendations.
C8_StoredTextNonEmpty ==
    \A id \in DOMAIN storage : NonEmptyText(storage[id])

C8_Witness ==
    /\ Succeeded("update")
    /\ Cardinality(DOMAIN storage) = 2
    /\ deleted = {}

\* C9: update_air_quality_data with an empty location or an empty
\* health_recommendations returns InvalidInput and leaves the counter and the
\* record map unchanged, whether or not the id has a live record.
C9_UpdateInvalidInput ==
    [][ (call'.op = "update" /\ ~NonEmptyText(call'.payload)) =>
            /\ ret'.tag = "InvalidInput"
            /\ counter' = counter
            /\ storage' = storage ]_vars

C9_Witness ==
    /\ call.op = "update"
    /\ ~NonEmptyText(call.payload)
    /\ ret.tag = "InvalidInput"
    /\ call.id \in DOMAIN storage
    /\ \E id \in Ids : id \notin DOMAIN storage

\* The query methods
QueryOps == {"get_all", "by_location", "by_weather", "by_pollutant", "by_timestamp"}

\* C10: every query returns Ok with live records in strictly ascending
\* identifier order (so each at most once, and an empty sequence when nothing
\* matches or the store is empty); get_all returns exactly the live records.
C10_QueriesAscending ==
    call.op \in QueryOps =>
        /\ ret.tag = "Ok"
        /\ \A i \in 1 .. Len(ret.val) :
              /\ ret.val[i].id \in DOMAIN storage
              /\ ret.val[i] = storage[ret.val[i].id]
        /\ \A i, j \in 1 .. Len(ret.val) : i < j => ULess(ret.val[i].id, ret.val[j].id)
        /\ (DOMAIN storage = {} => ret.val = << >>)
        /\ (call.op = "get_all" =>
               { ret.val[i].id : i \in 1 .. Len(ret.val) } = DOMAIN storage)

C10_Witness ==
    /\ call.op = "by_location"
    /\ call.location = <<"b">>
    /\ ret.tag = "Ok"
    /\ Len(ret.val) = 2

\* The records a query returned, as a set
Returned == { ret.val[i] : i \in 1 .. Len(ret.val) }

\* C11: the pollutant query returns exactly the live records whose pollutant
\* mapping contains the name with min <= value <= max, both ends included; a
\* record whose mapping lacks the name is never returned.
C11_PollutantRange ==
    call.op = "by_pollutant" =>
        /\ ret.tag = "Ok"
        /\ Returned =
              { storage[id] : id \in
                  { k \in DOMAIN storage :
                      /\ call.pollutant \in DOMAIN storage[k].pollutant_levels
                      /\ call.level[1] <= storage[k].pollutant_levels[call.pollutant]
                      /\ storage[k].pollutant_levels[call.pollutant] <= call.level[2] } }
        /\ \A i \in 1 .. Len(ret.val) :
              call.pollutant \in DOMAIN ret.val[i].pollutant_levels

C11_Witness ==
    /\ call.op = "by_pollutant"
    /\ call.pollutant = "PM2.5"
    /\ call.level = <<0, 35>>
    /\ ret.tag = "Ok"
    /\ Len(ret.val) = 1
    /\ \E id \in DOMAIN storage : storage[id].pollutant_levels = EmptyMap

\* C12: the timestamp query returns exactly the live records with
\* start <= timestamp <= end, both ends included, so none when start > end;
\* the timestamp it matches on is the time of the record's last successful
\* create or update.
C12_TimestampRange ==
    /\ call.op = "by_timestamp" =>
          /\ ret.tag = "Ok"
          /\ Returned =
                { storage[id] : id \in
                    { k \in DOMAIN storage :
                        /\ call.start <= storage[k].timestamp
                        /\ storage[k].timestamp <= call.end } }
          /\ (call.start > call.end => ret.val = << >>)
    /\ (call.op \in {"add", "update"} /\ ret.tag = "Ok") =>
          /\ ret.val.timestamp = now
          /\ storage[ret.val.id].timestamp = now

C12_Witness ==
    /\ call.op = "by_timestamp"
    /\ call.start = 1
    /\ call.end = 1
    /\ ret.tag = "Ok"
    /\ Len(ret.val) = 1
    /\ Cardinality(DOMAIN storage) = 2

\* C13: the weather query returns exactly the live records whose temperature,
\* humidity and wind speed are all three inside their inclusive ranges; a
\* record created without weather metrics is matched as 0, 0, 0.
C13_WeatherRange ==
    /\ call.op = "by_weather" =>
          /\ ret.tag = "Ok"
          /\ Returned =
                { storage[id] : id \in
                    { k \in DOMAIN storage :
                        LET w == storage[k].weather_conditions
                        IN  /\ call.temperature[1] <= w.temperature
                            /\ w.temperature <= call.temperature[2]
                            /\ call.humidity[1] <= w.humidity
                            /\ w.humidity <= call.humidity[2]
                            /\ call.wind_speed[1] <= w.wind_speed
                            /\ w.wind_speed <= call.wind_speed[2] } }
    /\ (Succeeded("add") /\ call.payload.weather_conditions = None) =>
          /\ ret.val.weather_conditions.temperature = 0
          /\ ret.val.weather_conditions.humidity = 0
          /\ ret.val.weather_conditions.wind_speed = 0

C13_Witness ==
    /\ call.op = "by_weather"
    /\ call.temperature = <<0, 18>>
    /\ call.humidity = <<35, 60>>
    /\ call.wind_speed = <<0, 18>>
    /\ ret.tag = "Ok"
    /\ Len(ret.val) = 1
    /\ Cardinality(DOMAIN storage) = 2

\* C14: get_air_quality_data and the five queries are read-only: whatever
\* their arguments, the counter and the record map are the same after the call
\* as before it.
C14_QueriesReadOnly ==
    [][ call'.op \in QueryOps \cup {"get"} =>
            /\ counter' = counter
            /\ storage' = storage ]_vars

C14_Witness ==
    /\ call.op = "by_weather"
    /\ ret.tag = "Ok"
    /\ Len(ret.val) = 2
    /\ counter = 2

\* C16: a successful update whose payload omits pollutant_levels stores the
\* empty mapping, and one that omits weather_conditions stores all-zero
\* metrics, whatever the record held before: the defaults create uses.
C16_UpdateDefaultsOmitted ==
    Succeeded("update") =>
        /\ call.payload.pollutant_levels = None =>
              /\ DOMAIN storage[call.id].pollutant_levels = {}
              /\ DOMAIN ret.val.pollutant_levels = {}
        /\ call.payload.weather_conditions = None =>
              /\ storage[call.id].weather_conditions =
                     [temperature |-> 0, humidity |-> 0, wind_speed |-> 0]
              /\ ret.val.weather_conditions = storage[call.id].weather_conditions
        /\ \A data \in Payloads :
              (/\ NonEmptyText(data)
               /\ data.pollutant_levels = call.payload.pollutant_levels
               /\ data.weather_conditions = call.payload.weather_conditions) =>
                  /\ NewRecord(0, data, 0).pollutant_levels =
                         storage[call.id].pollutant_levels
                  /\ NewRecord(0, data, 0).weather_conditions =
                         storage[call.id].weather_conditions

\* An update that omitted both optional fields has just succeeded
C16_Witness ==
    /\ Succeeded("update")
    /\ call.payload.pollutant_levels = None
    /\ call.payload.weather_conditions = None
    /\ DOMAIN storage[call.id].pollutant_levels = {}
    /\ storage[call.id].weather_conditions.humidity = 0

\* C15: decoding the encoding of a record gives back the record, field by
\* field, for any record within MAX_SIZE; so the record a successful create
\* or update returns is the record get_air_quality_data returns for its id
\* right afterwards.
C15_CodecRoundTrip ==
    /\ \A id \in DOMAIN storage :
          Len(to_bytes(storage[id])) <= 1024 =>
              \A f \in DOMAIN storage[id] :
                  from_bytes(to_bytes(storage[id]))[f] = storage[id][f]
    /\ (call.op \in {"add", "update"} /\ ret.tag = "Ok") =>
          /\ from_bytes(to_bytes(ret.val)) = ret.val
          /\ get_air_quality_data_result(storage, ret.val.id).tag = "Ok"
          /\ get_air_quality_data_result(storage, ret.val.id).val = ret.val

C15_Witness ==
    /\ Succeeded("update")
    /\ DOMAIN ret.val.pollutant_levels # {}
    /\ ret.val.weather_conditions.humidity = 60
    /\ Len(ret.val.location) = 2
    /\ storage[call.id] = ret.val

\* C17: the counter increment never wraps: a successful create never sets the
\* counter back to 0, never returns an identifier that is live and never
\* overwrites a live record.
C17_NoWrap ==
    [][ (call'.op = "add" /\ ret'.tag = "Ok") =>
            /\ ULess(counter, counter')
            /\ counter' # 0
            /\ ret'.val.id \notin DOMAIN storage
            /\ \A id \in DOMAIN storage : storage'[id] = storage[id] ]_vars

\* C18: each mutation touches only its own record.  A successful create adds
\* exactly one key, which was not live, and leaves every live record as it
\* was; a successful update keeps the set of live identifiers and changes no
\* record but the one with the given id; a successful delete removes exactly
\* the given id, returns the record stored under it and leaves the others.
C18_MutationsTouchOwnRecord ==
    [][ /\ (call'.op = "add" /\ ret'.tag = "Ok") =>
              /\ ret'.val.id \notin DOMAIN storage
              /\ DOMAIN storage' = DOMAIN storage \cup {ret'.val.id}
              /\ \A id \in DOMAIN storage : storage'[id] = storage[id]
        /\ (call'.op = "update" /\ ret'.tag = "Ok") =>
              /\ DOMAIN storage' = DOMAIN storage
              /\ \A id \in DOMAIN storage \ {call'.id} : storage'[id] = storage[id]
        /\ (call'.op = "delete" /\ ret'.tag = "Ok") =>
              /\ call'.id \in DOMAIN storage
              /\ DOMAIN storage' = DOMAIN storage \ {call'.id}
              /\ ret'.val = storage[call'.id]
              /\ \A id \in DOMAIN storage' : storage'[id] = storage[id] ]_vars

C18_Witness ==
    /\ Succeeded("delete")
    /\ Len(created) = 2
    /\ Cardinality(DOMAIN storage) = 1
    /\ call.id \notin DOMAIN storage

\* C19: every record is stored under the key equal to its own id field, and
\* the number of live records never exceeds the counter, which is the number
\* of successful creates so far.
C19_KeyIsIdAndCount ==
    /\ \A id \in DOMAIN storage : storage[id].id = id
    /\ Cardinality(DOMAIN storage) <= counter
    /\ counter = Len(created)

C19_Witness ==
    /\ Succeeded("update")
    /\ counter = 2
    /\ Cardinality(DOMAIN storage) = 2

====
